---- MODULE Spec2Model ----
(***************************************************************************)
(* Model of the lexical retrieval core of the credit-card assistant:       *)
(* src/vector_store.py (LocalRetriever, CreditCardVectorStore and the      *)
(* process-wide _RETRIEVER_CACHE).                                         *)
(*                                                                         *)
(* Text is modelled at the character level: a Python str is a sequence of  *)
(* one-character strings, so that lower(), replace(), split(), strip(),    *)
(* the "in" substring test and int() are computed, not assumed.            *)
(* Python's None is the empty tuple << >> and a given value v is <<v>>.    *)
(* Scores are fixed-point numbers with four decimals (0.05 is 500).        *)
(***************************************************************************)
EXTENDS Integers, Sequences, FiniteSets, TLC

(* ---------------------------------------------------------------------- *)
(* Bounds of the model                                                     *)
(* ---------------------------------------------------------------------- *)
\* Largest number of rows of a dataset.
MaxRows == 3
\* Largest length of a text given to the tokenizer on its own.
MaxTextLen == 4
\* Largest number of LocalRetriever objects built in one run.
MaxObjects == 2

(* ---------------------------------------------------------------------- *)
(* Program constants                                                       *)
(* ---------------------------------------------------------------------- *)
\* LocalRetriever.__init__(df, k=10)
DefaultK == 10
\* fee_val: the value of a fee that does not parse
FeeUnbounded == 1000000000
\* _keyword_bonus: 0.05 per synonym, at most 0.20
KeywordStep == 500
KeywordCap == 2000
\* _bank_bonus: 0.25
BankBonusValue == 2500
\* fuzz.partial_ratio(name, s) >= 92
DedupThreshold == 92
\* the working pool of the diversity loop is max(k*2, 12)
MinPool == 12

(* ---------------------------------------------------------------------- *)
(* Python values                                                           *)
(* ---------------------------------------------------------------------- *)
None == << >>

Some(v) == << v >>

\* Python truthiness of an Optional[str] / Optional[List[str]]: None, "" and
\* [] are falsy.
TruthySeq(o) == o # None /\ o[1] # << >>

\* A test for None alone: 0 counts as a value that was given.
TruthyInt_unless_none(o) == o # None

\* Python truthiness of an Optional[int]: None and 0 are falsy.
TruthyInt(o) == o # None /\ o[1] # 0

Max2(a, b) == IF a >= b THEN a ELSE b

Min2(a, b) == IF a <= b THEN a ELSE b

(* ---------------------------------------------------------------------- *)
(* Strings                                                                 *)
(* ---------------------------------------------------------------------- *)
\* str.lower() on one character
LowerCase ==
  [A |-> "a", B |-> "b", C |-> "c", D |-> "d", E |-> "e", F |-> "f",
   G |-> "g", H |-> "h", I |-> "i", J |-> "j", K |-> "k", L |-> "l",
   M |-> "m", N |-> "n", O |-> "o", P |-> "p", Q |-> "q", R |-> "r",
   S |-> "s", T |-> "t", U |-> "u", V |-> "v", W |-> "w", X |-> "x",
   Y |-> "y", Z |-> "z"]

\* The characters str.lower() changes.
UpperCase == DOMAIN LowerCase

lower(c) == IF c \in UpperCase THEN LowerCase[c] ELSE c

\* The sequence f as a tuple: the same value, with its elements computed
\* once.
List(f) == SubSeq(f, 1, Len(f))

\* str.lower()
Lower(s) == List([i \in 1..Len(s) |-> lower(s[i])])

\* s.replace(a, b) for one-character a; b is a string (possibly empty)
RECURSIVE Replace(_, _, _)
Replace(s, a, b) ==
  IF Len(b) = 1 THEN List([i \in 1..Len(s) |-> IF s[i] = a THEN b[1] ELSE s[i]])
  ELSE IF s = << >> THEN << >>
  ELSE (IF Head(s) = a THEN b ELSE << Head(s) >>) \o Replace(Tail(s), a, b)

\* the Python test  needle in hay  on strings
Contains(hay, needle) ==
  \E i \in 1..(Len(hay) - Len(needle) + 1) :
     SubSeq(hay, i, i + Len(needle) - 1) = needle

RECURSIVE LStrip(_)
LStrip(s) == IF s # << >> /\ Head(s) = " " THEN LStrip(Tail(s)) ELSE s

RECURSIVE RStrip(_)
RStrip(s) ==
  IF s # << >> /\ s[Len(s)] = " " THEN RStrip(SubSeq(s, 1, Len(s) - 1)) ELSE s

\* str.strip()
Strip(s) == RStrip(LStrip(s))

\* " ".join(parts)
RECURSIVE JoinSpace(_)
JoinSpace(parts) ==
  IF parts = << >> THEN << >>
  ELSE IF Len(parts) = 1 THEN parts[1]
  ELSE parts[1] \o << " " >> \o JoinSpace(Tail(parts))

\* str.split(): the maximal runs of characters other than whitespace; i is
\* the position being read and from the position where the run being read
\* began.
RECURSIVE SplitFrom(_, _, _)
SplitFrom(s, i, from) ==
  LET run == IF from < i THEN << SubSeq(s, from, i - 1) >> ELSE << >>
  IN  IF i > Len(s) THEN run
      ELSE IF s[i] = " " THEN run \o SplitFrom(s, i + 1, i + 1)
      ELSE SplitFrom(s, i + 1, from)

Split(s) == SplitFrom(s, 1, 1)

IsDigit(c) == c \in {"0", "1", "2", "3", "4", "5", "6", "7", "8", "9"}

DigitVal(c) ==
  CASE c = "0" -> 0 [] c = "1" -> 1 [] c = "2" -> 2 [] c = "3" -> 3 [] c = "4" -> 4
    [] c = "5" -> 5 [] c = "6" -> 6 [] c = "7" -> 7 [] c = "8" -> 8 [] c = "9" -> 9

RECURSIVE DigitsVal(_, _)
DigitsVal(s, acc) ==
  IF s = << >> THEN acc ELSE DigitsVal(Tail(s), 10 * acc + DigitVal(Head(s)))

\* Whether int(s) succeeds: optional surrounding whitespace, an optional sign,
\* then one or more digits.
IntParses(s) ==
  LET t == Strip(s)
      u == IF t # << >> /\ Head(t) \in {"+", "-"} THEN Tail(t) ELSE t
  IN  u # << >> /\ \A i \in 1..Len(u) : IsDigit(u[i])

\* int(s), where IntParses(s)
IntOf(s) ==
  LET t == Strip(s)
      neg == t # << >> /\ Head(t) = "-"
      u == IF t # << >> /\ Head(t) \in {"+", "-"} THEN Tail(t) ELSE t
  IN  IF neg THEN 0 - DigitsVal(u, 0) ELSE DigitsVal(u, 0)

(* ---------------------------------------------------------------------- *)
(* String literals of the datasets and queries of the model                *)
(* ---------------------------------------------------------------------- *)
\* "Gold"
s_Gold == <<"G", "o", "l", "d">>

\* "gold "
s_gold_sp == <<"g", "o", "l", "d", " ">>

\* "Plus"
s_Plus == <<"P", "l", "u", "s">>

\* "Max"
s_Max == <<"M", "a", "x">>

\* "SBI Card"
s_SBI_Card == <<"S", "B", "I", " ", "C", "a", "r", "d">>

\* "HDFC"
s_HDFC == <<"H", "D", "F", "C">>

\* "sbi"
s_sbi == <<"s", "b", "i">>

\* "Axis"
s_Axis == <<"A", "x", "i", "s">>

\* "XYZ"
s_xyz == <<"X", "Y", "Z">>

\* "500"
s_500 == <<"5", "0", "0">>

\* "1,000"
s_1c000 == <<"1", ",", "0", "0", "0">>

\* "2000"
s_2000 == <<"2", "0", "0", "0">>

\* "N/A"
s_NA == <<"N", "/", "A">>

\* "cashback"
s_cashback == <<"c", "a", "s", "h", "b", "a", "c", "k">>

\* "Cashback"
s_Cashback == <<"C", "a", "s", "h", "b", "a", "c", "k">>

\* "fuel"
s_fuel == <<"f", "u", "e", "l">>

\* "Travel"
s_Travel == <<"T", "r", "a", "v", "e", "l">>

\* "Lounge"
s_Lounge == <<"L", "o", "u", "n", "g", "e">>

\* "travel"
s_travel == <<"t", "r", "a", "v", "e", "l">>

\* "Fuel/Travel"
s_FuelTravel == <<"F", "u", "e", "l", "/", "T", "r", "a", "v", "e", "l">>

\* "fuel travel"
s_fuel_travel == <<"f", "u", "e", "l", " ", "t", "r", "a", "v", "e", "l">>

\* "Credit"
s_credit == <<"C", "r", "e", "d", "i", "t">>

(* ---------------------------------------------------------------------- *)
(* Datasets: a pandas DataFrame is its set of columns and its rows, each   *)
(* row a function from the columns to cells (strings).  A row's index      *)
(* label is its position.                                                  *)
(* ---------------------------------------------------------------------- *)
\* The ten canonical fields, and the Title Case column of each.
CanonicalFields ==
  {"bank_name", "card_name", "card_type", "annual_fee", "key_benefits",
   "description", "tags", "eligibility", "website", "faq"}

TitleName(f) ==
  CASE f = "bank_name" -> "Bank Name" [] f = "card_name" -> "Card Name"
    [] f = "card_type" -> "Card Type" [] f = "annual_fee" -> "Annual Fee"
    [] f = "key_benefits" -> "Key Benefits" [] f = "description" -> "Description"
    [] f = "tags" -> "Tags" [] f = "eligibility" -> "Eligibility"
    [] f = "website" -> "Website" [] f = "faq" -> "FAQ"

Schemas == {"title", "lower"}

ColumnName(schema, f) == IF schema = "title" THEN TitleName(f) ELSE f

\* A null cell (NaN) of a DataFrame; no text is equal to it.
Null == << "NaN" >>

\* A row of a dataset file; its FAQ cell is empty, which read_csv reads as
\* null.
Card(name, bank, fee, benefits, desc, tags) ==
  [card_name |-> name, bank_name |-> bank, card_type |-> s_credit,
   annual_fee |-> fee, key_benefits |-> benefits, description |-> desc,
   tags |-> tags, eligibility |-> << >>, website |-> << >>, faq |-> Null]

\* The cards datasets are made of.  Every card has a name, so the document
\* of every row has at least one token (BM25Okapi divides by the size of
\* the vocabulary).
CardPool ==
  << Card(s_Gold, s_SBI_Card, s_500, s_cashback, << >>, s_fuel),
     Card(s_gold_sp, s_HDFC, s_2000, s_Lounge, s_FuelTravel, s_Travel),
     Card(s_Plus, s_sbi, s_1c000, s_fuel, s_Cashback, << >>),
     Card(s_Max, s_Axis, s_NA, << >>, << >>, s_travel) >>

Range(s) == { s[i] : i \in 1..Len(s) }

\* The sequences of exactly n distinct elements of S.
RECURSIVE Arrangements(_, _)
Arrangements(S, n) ==
  IF n = 0 THEN { << >> }
  ELSE UNION { { Append(s, x) : x \in S \ Range(s) } : s \in Arrangements(S, n - 1) }

\* The DataFrame of the given cards under a column naming scheme.
MakeFrame(schema, cards) ==
  LET cols == { ColumnName(schema, f) : f \in CanonicalFields }
      field(c) == CHOOSE f \in CanonicalFields : ColumnName(schema, f) = c
  IN  [columns |-> cols,
       rows |-> List([i \in 1..Len(cards) |-> [c \in cols |-> cards[i][field(c)]]])]

\* pd.DataFrame()
EmptyFrame == [columns |-> {}, rows |-> << >>]

\* DataFrame.empty
IsEmpty(df) == df.rows = << >> \/ df.columns = {}

\* DataFrame.fillna(""): every null cell becomes the empty string.
fillna(df) ==
  [columns |-> df.columns,
   rows |-> List([i \in 1..Len(df.rows) |->
                    [c \in DOMAIN df.rows[i] |->
                       IF df.rows[i][c] = Null THEN << >> ELSE df.rows[i][c]]])]

\* The dataset without one of its columns.
Without(df, col) ==
  [columns |-> df.columns \ { col },
   rows |-> List([i \in 1..Len(df.rows) |->
                    [c \in df.columns \ { col } |-> df.rows[i][c]]])]

\* The datasets of the model: at most MaxRows distinct cards of the pool in
\* any order, under either naming scheme; and the datasets of one card that
\* lack the FAQ or the annual fee column.
Datasets ==
  { MakeFrame(schema, [i \in 1..Len(picks) |-> CardPool[picks[i]]]) :
      schema \in Schemas,
      picks \in UNION { Arrangements(1..Len(CardPool), n) : n \in 0..MaxRows } }
  \cup
  { Without(MakeFrame(schema, << CardPool[i] >>), ColumnName(schema, f)) :
      schema \in Schemas, i \in 1..Len(CardPool), f \in { "faq", "annual_fee" } }

\* row.get(col, default)
Get(row, col, default) == IF col \in DOMAIN row THEN row[col] ELSE default

\* row.get(a, row.get(b, ""))
GetEither(row, a, b) == Get(row, a, Get(row, b, << >>))

(* ---------------------------------------------------------------------- *)
(* LocalRetriever                                                          *)
(* ---------------------------------------------------------------------- *)
\* A tokenizer that leaves the hyphen in place.
tokenize_keeping_hyphen(text) ==
  Split(Replace(Lower(text), "/", << " " >>))

\* _tokenize
tokenize(text) ==
  Split(Replace(Replace(Lower(text), "/", << " " >>), "-", << " " >>))

row_text(row) ==
  JoinSpace(<< GetEither(row, "Card Name", "card_name"),
               GetEither(row, "Description", "description"),
               GetEither(row, "Key Benefits", "key_benefits"),
               GetEither(row, "Tags", "tags"),
               GetEither(row, "Eligibility", "eligibility"),
               GetEither(row, "Bank Name", "bank_name"),
               GetEither(row, "Card Type", "card_type") >>)

\* fee_val of _apply_filters: int(str(x).replace(",", "")), 10**9 on failure
fee_val(x) ==
  LET s == Replace(x, ",", << >>)
  IN  IF IntParses(s) THEN IntOf(s) ELSE FeeUnbounded

\* The bank step with its fallback test inverted: the strict set is used
\* when it is empty and dropped when it is not.
bank_filter_inverted(df, idx, bank) ==
  IF TruthySeq(bank)
  THEN LET strict ==
             SelectSeq(idx, LAMBDA i :
               Contains(Lower(GetEither(df.rows[i], "Bank Name", "bank_name")),
                        Lower(bank[1])))
       IN  IF strict = << >> THEN strict ELSE idx
  ELSE idx

\* The bank step: the rows whose bank contains the bank, all rows if none does.
bank_filter(df, idx, bank) ==
  IF TruthySeq(bank)
  THEN LET strict ==
             SelectSeq(idx, LAMBDA i :
               Contains(Lower(GetEither(df.rows[i], "Bank Name", "bank_name")),
                        Lower(bank[1])))
       IN  IF strict # << >> THEN strict ELSE idx
  ELSE idx

\* The fee step.
fee_filter(df, idx, max_fee) ==
  IF TruthyInt(max_fee)
  THEN LET col == IF "Annual Fee" \in df.columns THEN "Annual Fee" ELSE "annual_fee"
       IN  IF col \in df.columns
           THEN SelectSeq(idx, LAMBDA i : fee_val(df.rows[i][col]) <= max_fee[1])
           ELSE idx
  ELSE idx

\* in_cats of _apply_filters
in_cats(row, cats) ==
  LET blob == Lower(JoinSpace(<< Get(row, "Tags", << >>),
                                 Get(row, "Key Benefits", << >>),
                                 Get(row, "Description", << >>) >>))
  IN  \E j \in 1..Len(cats) : Contains(blob, cats[j])

\* The category step.
category_filter(df, idx, categories) ==
  IF TruthySeq(categories)
  THEN LET cats == List([j \in 1..Len(categories[1]) |-> Lower(categories[1][j])])
       IN  SelectSeq(idx, LAMBDA i : in_cats(df.rows[i], cats))
  ELSE idx

\* The filters with the bank step last, its fallback decided on what the fee
\* and category steps left.
apply_filters_bank_last(df, bank, max_fee, categories) ==
  bank_filter(df,
    category_filter(df,
      fee_filter(df, List([i \in 1..Len(df.rows) |-> i]), max_fee),
      categories),
    bank)

\* _apply_filters: the index labels of the rows that are kept, in order.
apply_filters(df, bank, max_fee, categories) ==
  category_filter(df,
    fee_filter(df,
      bank_filter(df, List([i \in 1..Len(df.rows) |-> i]), bank),
      max_fee),
    categories)

\* keyword_synonyms of _keyword_bonus
keyword_synonyms ==
  << <<"c", "a", "s", "h", "b", "a", "c", "k">>,
     <<"t", "r", "a", "v", "e", "l">>,
     <<"l", "o", "u", "n", "g", "e">>,
     <<"f", "u", "e", "l">>,
     <<"s", "h", "o", "p", "p", "i", "n", "g">>,
     <<"d", "i", "n", "i", "n", "g">>,
     <<"o", "n", "l", "i", "n", "e">>,
     <<"g", "r", "o", "c", "e", "r", "i", "e", "s">>,
     <<"r", "e", "w", "a", "r", "d", "s">>,
     <<"a", "i", "r", "p", "o", "r", "t">>,
     <<"a", "i", "r", "p", "o", "r", "t", " ", "l", "o", "u", "n", "g", "e">>,
     <<"p", "r", "i", "o", "r", "i", "t", "y", " ", "p", "a", "s", "s">>,
     <<"m", "i", "l", "e", "s", "t", "o", "n", "e">>,
     <<"a", "n", "n", "u", "a", "l", " ", "f", "e", "e", " ", "w", "a", "i", "v", "e", "r">>,
     <<"f", "o", "r", "e", "x">>,
     <<"f", "o", "r", "e", "i", "g", "n">>,
     <<"i", "n", "t", "e", "r", "n", "a", "t", "i", "o", "n", "a", "l">>,
     <<"m", "o", "v", "i", "e">>,
     <<"m", "o", "v", "i", "e", "s">>,
     <<"c", "i", "n", "e", "m", "a">>,
     <<"r", "a", "i", "l", "w", "a", "y", " ", "l", "o", "u", "n", "g", "e">>,
     <<"t", "r", "a", "v", "e", "l", " ", "i", "n", "s", "u", "r", "a", "n", "c", "e">>,
     <<"d", "i", "n", "i", "n", "g", " ", "o", "f", "f", "e", "r", "s">>,
     <<"f", "u", "e", "l", " ", "s", "u", "r", "c", "h", "a", "r", "g", "e">> >>

\* _keyword_bonus
keyword_bonus(query, row) ==
  LET q == Lower(query)
      txt == Lower(JoinSpace(<< Get(row, "Card Name", << >>),
                                Get(row, "Description", << >>),
                                Get(row, "Key Benefits", << >>),
                                Get(row, "Tags", << >>) >>))
      hits == { j \in 1..Len(keyword_synonyms) :
                  Contains(q, keyword_synonyms[j]) /\ Contains(txt, keyword_synonyms[j]) }
  IN  Min2(KeywordStep * Cardinality(hits), KeywordCap)

\* A bank bonus that compares the bank names as they are written.
bank_bonus_case_sensitive(bank, row) ==
  IF ~TruthySeq(bank) THEN 0
  ELSE IF Contains(GetEither(row, "Bank Name", "bank_name"), bank[1])
       THEN BankBonusValue
       ELSE 0

\* _bank_bonus
bank_bonus(bank, row) ==
  IF ~TruthySeq(bank) THEN 0
  ELSE IF Contains(Lower(GetEither(row, "Bank Name", "bank_name")), Lower(bank[1]))
       THEN BankBonusValue
       ELSE 0

(* ---------------------------------------------------------------------- *)
(* rank_bm25.BM25Okapi(corpus).get_scores(query), k1 = 1.5, b = 0.75,      *)
(* epsilon = 0.25, in fixed point.                                         *)
(* ---------------------------------------------------------------------- *)
\* math.log(x + 0.5), four decimals
LnHalf(x) ==
  CASE x = 0 -> 0 - 6931 [] x = 1 -> 4055 [] x = 2 -> 9163 [] x = 3 -> 12528
    [] x = 4 -> 15041 [] x = 5 -> 17047 [] x = 6 -> 18718 [] x = 7 -> 20149

\* The sum of f[x] over the x of S.
RECURSIVE SumOver(_, _)
SumOver(S, f) ==
  IF S = {} THEN 0
  ELSE LET x == CHOOSE y \in S : TRUE IN f[x] + SumOver(S \ {x}, f)

\* The sum of the elements of a sequence of numbers.
RECURSIVE SumSeq(_)
SumSeq(s) == IF s = << >> THEN 0 ELSE Head(s) + SumSeq(Tail(s))

Count(doc, w) == Cardinality({ p \in 1..Len(doc) : doc[p] = w })

bm25_scores(corpus, query) ==
  LET N == Len(corpus)
      total == SumSeq([i \in 1..N |-> Len(corpus[i])])
      words == List([i \in 1..N |-> Range(corpus[i])])
      vocab == UNION { words[i] : i \in 1..N }
      nd(w) == Cardinality({ i \in 1..N : w \in words[i] })
      raw(w) == LnHalf(N - nd(w)) - LnHalf(nd(w))
      average_idf == SumOver(vocab, [w \in vocab |-> raw(w)]) \div Cardinality(vocab)
      eps == average_idf \div 4
      idf(w) == IF w \notin vocab THEN 0 ELSE IF raw(w) < 0 THEN eps ELSE raw(w)
      idfs == List([p \in 1..Len(query) |-> idf(query[p])])
      term(i, p) ==
        LET f == Count(corpus[i], query[p])
        IN  (idfs[p] * 20 * f * total)
              \div (8 * f * total + 3 * total + 9 * Len(corpus[i]) * N)
  IN  List([i \in 1..N |-> SumSeq([p \in 1..Len(query) |-> term(i, p)])])

(* ---------------------------------------------------------------------- *)
(* rapidfuzz.fuzz.partial_ratio(s1, s2) >= cutoff                          *)
(* ---------------------------------------------------------------------- *)
\* One row of the longest-common-subsequence table: prev is the row above,
\* cur the entries of this row for the columns before j.
RECURSIVE LcsRow(_, _, _, _, _)
LcsRow(ai, b, prev, cur, j) ==
  IF j > Len(b) THEN cur
  ELSE LcsRow(ai, b, prev,
              Append(cur, IF ai = b[j] THEN prev[j] + 1
                                       ELSE Max2(prev[j + 1], cur[j])),
              j + 1)

RECURSIVE LcsFrom(_, _, _, _)
LcsFrom(a, b, i, prev) ==
  IF i > Len(a) THEN prev[Len(b) + 1]
  ELSE LcsFrom(a, b, i + 1, LcsRow(a[i], b, prev, << 0 >>, 1))

Lcs(a, b) == LcsFrom(a, b, 1, [j \in 1..(Len(b) + 1) |-> 0])

\* fuzz.ratio(a, b) >= cutoff: 100 * 2 * lcs / (len(a) + len(b)), 100 for
\* two empty strings.
ratio_at_least(a, b, cutoff) ==
  IF Len(a) + Len(b) = 0 THEN TRUE
  ELSE 200 * Lcs(a, b) >= cutoff * (Len(a) + Len(b))

\* The best ratio of the shorter string against the windows of the longer
\* one: those of the shorter one's length and the shorter ones at both ends.
partial_ratio_at_least(s1, s2, cutoff) ==
  LET short == IF Len(s1) <= Len(s2) THEN s1 ELSE s2
      long == IF Len(s1) <= Len(s2) THEN s2 ELSE s1
      m == Len(short)
      n == Len(long)
  IN  IF m = 0 THEN n = 0
      ELSE \E i \in (2 - m)..n :
             ratio_at_least(short, SubSeq(long, Max2(i, 1), Min2(i + m - 1, n)), cutoff)

\* An ascending sort read backwards: descending, but a pair goes before the
\* pairs of equal score that precede it.
RECURSIVE sort_desc_reversed(_, _)
sort_desc_reversed(rows, sorted) ==
  IF rows = << >> THEN sorted
  ELSE LET r == Head(rows)
           pos == Cardinality({ p \in 1..Len(sorted) : sorted[p][2] > r[2] })
       IN  sort_desc_reversed(Tail(rows),
                              SubSeq(sorted, 1, pos) \o << r >>
                                \o SubSeq(sorted, pos + 1, Len(sorted)))

\* rows.sort(key=lambda x: x[1], reverse=True) on (index, score) pairs:
\* descending and stable, so a pair goes after the pairs of equal score
\* that precede it.
RECURSIVE sort_desc(_, _)
sort_desc(rows, sorted) ==
  IF rows = << >> THEN sorted
  ELSE LET r == Head(rows)
           pos == Cardinality({ p \in 1..Len(sorted) : sorted[p][2] >= r[2] })
       IN  sort_desc(Tail(rows),
                     SubSeq(sorted, 1, pos) \o << r >> \o SubSeq(sorted, pos + 1, Len(sorted)))

\* The diversity loop without its seen set: every candidate is picked.
pick_distinct_all(df, order, p, seen, picked, limit) ==
  SubSeq(order, 1, Min2(limit, Len(order)))

\* The diversity loop of search: the indices, in score order, whose
\* normalized card name is no near-duplicate of one picked before; the
\* loop ends once limit indices are picked.
RECURSIVE pick_distinct(_, _, _, _, _, _)
pick_distinct(df, order, p, seen, picked, limit) ==
  IF p > Len(order) THEN picked
  ELSE LET name == Lower(Strip(GetEither(df.rows[order[p]], "Card Name", "card_name")))
       IN  IF \E s \in seen : partial_ratio_at_least(name, s, DedupThreshold)
           THEN pick_distinct(df, order, p + 1, seen, picked, limit)
           ELSE IF Len(picked) + 1 >= limit
                THEN Append(picked, order[p])
                ELSE pick_distinct(df, order, p + 1, seen \cup { name },
                                   Append(picked, order[p]), limit)

\* DataFrame.head(n): the first n rows, all but the last -n for a negative n
head(s, n) ==
  IF n >= 0 THEN SubSeq(s, 1, Min2(n, Len(s)))
  ELSE SubSeq(s, 1, Max2(Len(s) + n, 0))

\* The column renaming of the result.
rename(columns) ==
  { IF \E f \in CanonicalFields : TitleName(f) = c
    THEN CHOOSE f \in CanonicalFields : TitleName(f) = c
    ELSE c : c \in columns }

\* Whether BM25Okapi(corpus) raises ZeroDivisionError: it divides by the
\* number of documents and by the size of the vocabulary.
bm25_raises(corpus) == \A i \in 1..Len(corpus) : corpus[i] = << >>

\* self._tokenize(self._row_text(r)) for the rows r of the datasets,
\* tabulated.
RowTokens ==
  [r \in UNION { Range(fillna(d).rows) : d \in Datasets } |-> tokenize(row_text(r))]
    @@ << >>

\* self._tokenize(self._row_text(r))
doc_tokens(row) ==
  IF row \in DOMAIN RowTokens THEN RowTokens[row] ELSE tokenize(row_text(row))

\* The documents search indexes: the tokens of the rows of base.
base_tokens(self, base) ==
  List([p \in 1..Len(base) |-> doc_tokens(self.df.rows[base[p]])])

\* The scored candidates of search, before sorting: (index, score) pairs
\* over the rows of base.
scored(self, base, query, bank) ==
  LET sims == bm25_scores(base_tokens(self, base), tokenize(query))
  IN  List([p \in 1..Len(base) |->
              << base[p],
                 sims[p] + keyword_bonus(query, self.df.rows[base[p]])
                         + bank_bonus(bank, self.df.rows[base[p]]) >>])

\* The candidate set without the fallback to the whole dataset.
candidate_base_no_fallback(self, bank, max_fee, categories) ==
  apply_filters(self.df, bank, max_fee, categories)

\* The candidate set search scores: the filtered rows, the whole dataset if
\* there are none.
candidate_base(self, bank, max_fee, categories) ==
  LET filtered == apply_filters(self.df, bank, max_fee, categories)
  IN  IF filtered = << >> THEN List([i \in 1..Len(self.df.rows) |-> i]) ELSE filtered

\* A default result size that is the constructor's, whatever self.k is.
effective_k_fixed_default(self, k) == IF TruthyInt(k) THEN k[1] ELSE DefaultK

\* k or self.k
effective_k(self, k) == IF TruthyInt(k) THEN k[1] ELSE self.k

\* The guard on an unbuilt retriever left out.
is_unbuilt_never(self) == FALSE

\* if self.df.empty or self._bm25 is None
is_unbuilt(self) == IsEmpty(self.df) \/ ~self.bm25

\* What search returns: the index labels of the returned rows, in order,
\* and the columns of the returned frame; or that it raised.
Returned(index, columns) == [raised |-> FALSE, index |-> index, columns |-> columns]

Raised == [raised |-> TRUE, index |-> << >>, columns |-> {}]

\* The list rows of search once sorted: the (index, score) pairs of the
\* candidates in score order; empty when search returns or raises before
\* it scores.
search_rows(self, query, bank, max_fee, categories) ==
  LET base == candidate_base(self, bank, max_fee, categories)
  IN  IF is_unbuilt(self) \/ bm25_raises(base_tokens(self, base)) THEN << >>
      ELSE sort_desc(scored(self, base, query, bank), << >>)

\* What search returns, given its sorted rows.
search_result(self, rows, bank, max_fee, categories, k) ==
  IF is_unbuilt(self) THEN Returned(<< >>, {})
  ELSE LET kk == effective_k(self, k)
           base == candidate_base(self, bank, max_fee, categories)
       IN  IF bm25_raises(base_tokens(self, base)) THEN Raised
           ELSE LET order == List([p \in 1..Len(rows) |-> rows[p][1]])
                    picked == pick_distinct(self.df, order, 1, {}, << >>,
                                            Max2(kk * 2, MinPool))
                IN  Returned(head(picked, kk), rename(self.df.columns))

\* LocalRetriever.search
search(self, query, bank, max_fee, categories, k) ==
  search_result(self, search_rows(self, query, bank, max_fee, categories),
                bank, max_fee, categories, k)

\* LocalRetriever.__init__(df): the retriever once built.
new_retriever(df) ==
  [stage |-> "done",
   k |-> DefaultK,
   df |-> IF IsEmpty(df) THEN EmptyFrame ELSE fillna(df),
   bm25 |-> ~IsEmpty(df)]

(* ---------------------------------------------------------------------- *)
(* The arguments of the search calls of the model                          *)
(* ---------------------------------------------------------------------- *)
Queries == { s_cashback, s_fuel_travel }

Banks == { None, Some(<< >>), Some(s_sbi), Some(s_HDFC), Some(s_xyz) }

MaxFees == { None, Some(0), Some(1000) }

CategoryLists == { None, Some(<< >>), Some(<< s_Cashback >>) }

Ks == { None, Some(0), Some(1), Some(2) }

Calls ==
  [query : Queries, bank : Banks, max_fee : MaxFees, categories : CategoryLists, k : Ks]

(* ---------------------------------------------------------------------- *)
(* State                                                                   *)
(* ---------------------------------------------------------------------- *)
VARIABLES
  files,   \* the dataset file at each path: None (missing) or its DataFrame
  cache,   \* _RETRIEVER_CACHE: the retriever of each key, 0 for no entry
  heap,    \* the LocalRetriever objects, by identity 1, 2, ...
  thr,     \* per thread: its place in CreditCardVectorStore.__init__, the
           \* store it holds, its last search call, the sorted rows of that
           \* call and what it returned
  built    \* the lexical index (BM25Okapi) the last step built: "none",
           \* "dataset" (LocalRetriever.__init__) or "scoped" (search)

vars == << files, cache, heap, thr, built >>

Threads == { 1, 2 }

\* data_path; the cache key of a path is the path followed by "::bm25"
Paths == { "cards.csv", "upload.csv" }

IdleThread ==
  [pc |-> "idle", path |-> "", force |-> FALSE, df |-> EmptyFrame,
   retriever |-> 0, call |-> None, rows |-> << >>, result |-> None]

(* ---------------------------------------------------------------------- *)
(* CreditCardVectorStore.__init__, one action per step                     *)
(* ---------------------------------------------------------------------- *)
\* A retriever no store and no cache entry refers to any more is reclaimed;
\* its identity is not given out again.
Reclaimed == [stage |-> "reclaimed", k |-> DefaultK, df |-> EmptyFrame, bm25 |-> FALSE]

reclaim(h, c, th) ==
  List([r \in 1..Len(h) |->
          IF (\E p \in Paths : c[p] = r) \/ (\E t \in Threads : th[t].retriever = r)
          THEN h[r] ELSE Reclaimed])

\* pd.read_csv(path).fillna("") of an existing file, pd.DataFrame() of a
\* missing one
read_csv(p) == IF files[p] # None THEN fillna(files[p][1]) ELSE EmptyFrame

\* The thread starts constructing a store: data_path is p, self.df is read.
CtorRead(t, p, force) ==
  /\ thr[t].pc = "idle"
  /\ thr' = [thr EXCEPT ![t] = [IdleThread EXCEPT !.pc = "lookup", !.path = p,
                                                   !.force = force, !.df = read_csv(p)]]
  /\ built' = "none"
  /\ UNCHANGED << files, cache, heap >>

\* The test with force_reindex forgotten: any cached retriever is taken.
cache_hit_ignoring_force(t) == cache[thr[t].path] # 0

\* A cache test that takes the cached retriever only if its dataset is the
\* one just read from the file.
cache_hit_when_fresh(t) ==
  /\ ~thr[t].force /\ cache[thr[t].path] # 0
  /\ heap[cache[thr[t].path]].df = new_retriever(thr[t].df).df

\* (not force_reindex) and cache_key in _RETRIEVER_CACHE
cache_hit(t) == ~thr[t].force /\ cache[thr[t].path] # 0

\* A cached retriever is taken unless force_reindex.
CtorHit(t) ==
  /\ thr[t].pc = "lookup"
  /\ cache_hit(t)
  /\ thr' = [thr EXCEPT ![t].pc = "ready", ![t].force = FALSE,
                          ![t].retriever = cache[thr[t].path]]
  /\ built' = "none"
  /\ UNCHANGED << files, cache, heap >>

\* A construction that enters the retriever in the cache before it is built.
CtorMiss_publishing(t) ==
  /\ thr[t].pc = "lookup"
  /\ ~cache_hit(t)
  /\ Len(heap) < MaxObjects
  /\ heap' = Append(heap, [stage |-> "new", k |-> DefaultK, df |-> EmptyFrame, bm25 |-> FALSE])
  /\ cache' = [cache EXCEPT ![thr[t].path] = Len(heap) + 1]
  /\ thr' = [thr EXCEPT ![t].pc = "init_fields", ![t].retriever = Len(heap) + 1]
  /\ built' = "none"
  /\ UNCHANGED files

\* LocalRetriever(self.df) begins: the object exists and self.k is set.
CtorMiss(t) ==
  /\ thr[t].pc = "lookup"
  /\ ~cache_hit(t)
  /\ Len(heap) < MaxObjects
  /\ heap' = Append(heap, [stage |-> "new", k |-> DefaultK, df |-> EmptyFrame, bm25 |-> FALSE])
  /\ thr' = [thr EXCEPT ![t].pc = "init_fields", ![t].retriever = Len(heap) + 1]
  /\ built' = "none"
  /\ UNCHANGED << files, cache >>

\* LocalRetriever.__init__: self.df, self._bm25 = None, self._corpus = []
InitFields(t) ==
  /\ thr[t].pc = "init_fields"
  /\ heap' = [heap EXCEPT ![thr[t].retriever] =
                [@ EXCEPT !.stage = "fields", !.df = new_retriever(thr[t].df).df]]
  /\ thr' = [thr EXCEPT ![t].pc = "init_index"]
  /\ built' = "none"
  /\ UNCHANGED << files, cache >>

\* LocalRetriever.__init__: the corpus and its BM25 index, unless df is empty
InitIndex(t) ==
  /\ thr[t].pc = "init_index"
  /\ heap' = [heap EXCEPT ![thr[t].retriever] =
                [@ EXCEPT !.stage = "done", !.bm25 = new_retriever(thr[t].df).bm25]]
  /\ thr' = [thr EXCEPT ![t].pc = "install"]
  /\ built' = IF new_retriever(thr[t].df).bm25 THEN "dataset" ELSE "none"
  /\ UNCHANGED << files, cache >>

\* An install that replaces the whole cache by the one new entry.
Install_clearing(t) ==
  /\ thr[t].pc = "install"
  /\ cache' = [p \in Paths |-> IF p = thr[t].path THEN thr[t].retriever ELSE 0]
  /\ thr' = [thr EXCEPT ![t].pc = "ready", ![t].force = FALSE]
  /\ heap' = reclaim(heap, cache', thr')
  /\ built' = "none"
  /\ UNCHANGED files

\* self.retriever = the new retriever; _RETRIEVER_CACHE[cache_key] = self.retriever
Install(t) ==
  /\ thr[t].pc = "install"
  /\ cache' = [cache EXCEPT ![thr[t].path] = thr[t].retriever]
  /\ thr' = [thr EXCEPT ![t].pc = "ready", ![t].force = FALSE]
  /\ heap' = reclaim(heap, cache', thr')
  /\ built' = "none"
  /\ UNCHANGED files

\* CreditCardVectorStore.as_retriever(k)
AsRetriever(t, k) ==
  /\ thr[t].pc = "ready"
  /\ heap' = [heap EXCEPT ![thr[t].retriever].k = k]
  /\ built' = "none"
  /\ UNCHANGED << files, cache, thr >>

\* retriever.search(...) on the retriever of the thread's store
SearchStep(t, c) ==
  /\ thr[t].pc = "ready"
  /\ UNCHANGED << files, cache, heap >>
  /\ LET self == heap[thr[t].retriever]
         rows == search_rows(self, c.query, c.bank, c.max_fee, c.categories)
     IN  /\ built' = IF is_unbuilt(self) THEN "none" ELSE "scoped"
         /\ thr' = [thr EXCEPT ![t].call = Some(c),
                               ![t].rows = rows,
                               ![t].result = Some(search_result(self, rows, c.bank, c.max_fee,
                                                                c.categories, c.k))]

\* The thread drops its store.
Release(t) ==
  /\ thr[t].pc = "ready"
  /\ thr' = [thr EXCEPT ![t] = IdleThread]
  /\ heap' = reclaim(heap, cache, thr')
  /\ built' = "none"
  /\ UNCHANGED << files, cache >>

\* The dataset file at p is written, replaced or removed.
WriteFile(p, content) ==
  /\ files[p] # content
  /\ files' = [files EXCEPT ![p] = content]
  /\ built' = "none"
  /\ UNCHANGED << cache, heap, thr >>

(* ---------------------------------------------------------------------- *)
(* Spec: stores built and used by two threads on one dataset identity      *)
(* ---------------------------------------------------------------------- *)
\* The contents a dataset file takes: missing, or two cards.
FileContents ==
  { None, Some(MakeFrame("title", << CardPool[1], CardPool[3] >>)) }

\* The search calls of the threads.
ThreadCalls ==
  { [query |-> s_cashback, bank |-> None, max_fee |-> None, categories |-> None, k |-> None] }

\* The k of the as_retriever calls.
RetrieverKs == { 1, DefaultK }

Init ==
  /\ files = [p \in Paths |-> None]
  /\ cache = [p \in Paths |-> 0]
  /\ heap = << >>
  /\ thr = [t \in Threads |-> IdleThread]
  /\ built = "none"

\* The steps of the threads of T over the dataset files at the paths of P.
NextOn(T, P) ==
  \/ \E t \in T, p \in P, force \in BOOLEAN : CtorRead(t, p, force)
  \/ \E t \in T : CtorHit(t)
  \/ \E t \in T : CtorMiss(t)
  \/ \E t \in T : InitFields(t)
  \/ \E t \in T : InitIndex(t)
  \/ \E t \in T : Install(t)
  \/ \E t \in T, k \in RetrieverKs : AsRetriever(t, k)
  \/ \E t \in T, c \in ThreadCalls : SearchStep(t, c)
  \/ \E t \in T : Release(t)
  \/ \E p \in P, content \in FileContents : WriteFile(p, content)

\* Two threads on one dataset identity.
Next == NextOn(Threads, { "cards.csv" })

Spec == Init /\ [][Next]_vars

(* ---------------------------------------------------------------------- *)
(* SpecSearch: search as a function of the dataset and its arguments.      *)
(* One thread holds the store of a dataset and makes one search call.      *)
(* ---------------------------------------------------------------------- *)
InitSearch ==
  \E df \in Datasets :
    /\ files = [p \in Paths |-> IF p = "cards.csv" THEN Some(df) ELSE None]
    /\ cache = [p \in Paths |-> IF p = "cards.csv" THEN 1 ELSE 0]
    /\ heap = << new_retriever(fillna(df)) >>
    /\ thr = [t \in Threads |->
                IF t = 1 THEN [IdleThread EXCEPT !.pc = "ready", !.path = "cards.csv",
                                                 !.df = fillna(df), !.retriever = 1]
                ELSE IdleThread]
    /\ built = "none"

NextSearch == \E c \in Calls : thr[1].call = None /\ SearchStep(1, c)

SpecSearch == InitSearch /\ [][NextSearch]_vars

(* ---------------------------------------------------------------------- *)
(* SpecKeys: stores constructed by two threads over two dataset            *)
(* identities, both files present.                                         *)
(* ---------------------------------------------------------------------- *)
InitKeys ==
  /\ files = [p \in Paths |-> Some(MakeFrame("title", << CardPool[1], CardPool[3] >>))]
  /\ cache = [p \in Paths |-> 0]
  /\ heap = << >>
  /\ thr = [t \in Threads |-> IdleThread]
  /\ built = "none"

NextKeys ==
  \/ \E t \in Threads, p \in Paths, force \in BOOLEAN : CtorRead(t, p, force)
  \/ \E t \in Threads : CtorHit(t)
  \/ \E t \in Threads : CtorMiss(t)
  \/ \E t \in Threads : InitFields(t)
  \/ \E t \in Threads : InitIndex(t)
  \/ \E t \in Threads : Install(t)
  \/ \E t \in Threads : Release(t)

SpecKeys == InitKeys /\ [][NextKeys]_vars

(* ---------------------------------------------------------------------- *)
(* SpecTokenize: _tokenize on its own.  search tokenizes the query (line   *)
(* 99) and the text of each candidate row (line 103); here the query is    *)
(* any short text and the row text any text that differs from it in letter *)
(* case and separators only.                                               *)
(* ---------------------------------------------------------------------- *)
TextChars == { "a", "A", "b", "/", "-", " " }

Separators == { "/", "-", " " }

Texts == UNION { [1..n -> TextChars] : n \in 0..MaxTextLen }

\* The characters that differ from c in letter case at most, or that are
\* separators as c is.
LikeChars(c) ==
  IF c \in Separators THEN Separators ELSE { d \in TextChars : lower(d) = lower(c) }

\* The texts that differ from x only in letter case and in the separators
\* between words.
RECURSIVE Variants(_)
Variants(x) ==
  IF x = << >> THEN { << >> }
  ELSE { << c >> \o v : c \in LikeChars(Head(x)), v \in Variants(Tail(x)) }

InitTokenize ==
  \E x \in Texts :
    /\ files = [p \in Paths |-> None]
    /\ cache = [p \in Paths |-> 0]
    /\ heap = << >>
    /\ thr = [t \in Threads |->
                IF t = 1 THEN [IdleThread EXCEPT !.call = Some([query |-> x])]
                ELSE IdleThread]
    /\ built = "none"

\* The query of the thread and a row text are tokenized.
TokenizeStep(t, text) ==
  /\ thr[t].call # None /\ thr[t].result = None
  /\ thr' = [thr EXCEPT ![t].result =
               Some([text |-> text,
                     queries |-> tokenize(thr[t].call[1].query),
                     tokens |-> tokenize(text)])]
  /\ UNCHANGED << files, cache, heap, built >>

NextTokenize == \E text \in Variants(thr[1].call[1].query) : TokenizeStep(1, text)

SpecTokenize == InitTokenize /\ [][NextTokenize]_vars

(* ---------------------------------------------------------------------- *)
(* What the claims speak of                                                *)
(* ---------------------------------------------------------------------- *)
\* Thread t has made a search call on the retriever of its store.
Called(t) == thr[t].pc = "ready" /\ thr[t].call # None

TheCall(t) == thr[t].call[1]

TheResult(t) == thr[t].result[1]

Self(t) == heap[thr[t].retriever]

\* The rows the call returned.
ReturnedRows(t) ==
  [p \in 1..Len(TheResult(t).index) |-> Self(t).df.rows[TheResult(t).index[p]]]

\* The cells of a row, under either column naming scheme.
BankOf(row) == GetEither(row, "Bank Name", "bank_name")

FeeOf(row) == GetEither(row, "Annual Fee", "annual_fee")

CategoryTextOf(row) ==
  JoinSpace(<< GetEither(row, "Tags", "tags"),
               GetEither(row, "Key Benefits", "key_benefits"),
               GetEither(row, "Description", "description") >>)

\* The bank field of the row contains b, whatever the case.
BankMatches(row, b) == Contains(Lower(BankOf(row)), Lower(b))

\* The rows the filters of the call keep.
Filtered(t) ==
  apply_filters(Self(t).df, TheCall(t).bank, TheCall(t).max_fee, TheCall(t).categories)

\* The k the call asks for: its k argument, the retriever's default if omitted.
RequestedK(t) == IF TheCall(t).k # None THEN TheCall(t).k[1] ELSE Self(t).k

(* ---------------------------------------------------------------------- *)
(* Claims on search (SpecSearch)                                           *)
(* ---------------------------------------------------------------------- *)
\* C1: a search call given max_fee does not raise and returns no row whose
\* annual fee exceeds max_fee or does not parse as an integer.
C1_FeeCapRespected ==
  \A t \in Threads :
    Called(t) /\ TheCall(t).max_fee # None =>
      /\ ~TheResult(t).raised
      /\ \A p \in 1..Len(ReturnedRows(t)) :
           LET fee == Replace(FeeOf(ReturnedRows(t)[p]), ",", << >>)
           IN  IntParses(fee) /\ IntOf(fee) <= TheCall(t).max_fee[1]

\* C2: when the fee and category filters leave no row of a non-empty
\* dataset, search returns no record.
C2_EmptyFilterPropagates ==
  \A t \in Threads :
    Called(t) /\ ~IsEmpty(Self(t).df)
      /\ (TruthyInt(TheCall(t).max_fee) \/ TruthySeq(TheCall(t).categories))
      /\ Filtered(t) = << >>
      => TheResult(t).index = << >>

C4_UnknownBankIsNoBank ==
  \A t \in Threads :
    Called(t) /\ TheCall(t).bank # None
      /\ (\A i \in 1..Len(Self(t).df.rows) :
            ~BankMatches(Self(t).df.rows[i], TheCall(t).bank[1]))
      => TheResult(t) = search(Self(t), TheCall(t).query, None, TheCall(t).max_fee,
                               TheCall(t).categories, TheCall(t).k)

\* C4 witness: an unknown bank with a fee cap that keeps some rows and drops
\* others.
C4_Witness ==
  /\ Called(1) /\ TheCall(1).bank = Some(s_xyz)
  /\ TruthyInt(TheCall(1).max_fee)
  /\ Filtered(1) # << >>
  /\ Len(Filtered(1)) < Len(Self(1).df.rows)
  /\ Len(TheResult(1).index) >= 1

\* C5: with a bank that some row's bank contains and neither a fee nor a
\* category filter, every returned record's bank contains it.
C5_OnlyBankRows ==
  \A t \in Threads :
    Called(t) /\ TheCall(t).bank # None
      /\ TheCall(t).max_fee = None /\ TheCall(t).categories = None
      /\ (\E i \in 1..Len(Self(t).df.rows) :
            BankMatches(Self(t).df.rows[i], TheCall(t).bank[1]))
      => \A p \in 1..Len(ReturnedRows(t)) :
           BankMatches(ReturnedRows(t)[p], TheCall(t).bank[1])

\* C5 witness: the dataset has rows of the bank and rows of other banks, and
\* records were returned.
C5_Witness ==
  /\ Called(1) /\ TheCall(1).bank = Some(s_sbi)
  /\ TheCall(1).max_fee = None /\ TheCall(1).categories = None
  /\ \E i \in 1..Len(Self(1).df.rows) : BankMatches(Self(1).df.rows[i], s_sbi)
  /\ \E i \in 1..Len(Self(1).df.rows) : ~BankMatches(Self(1).df.rows[i], s_sbi)
  /\ Len(TheResult(1).index) >= 1

\* C6: with a non-empty categories list, every returned row has one of the
\* categories in its tags, key benefits and description.
C6_OnlyCategoryRows ==
  \A t \in Threads :
    Called(t) /\ TruthySeq(TheCall(t).categories) =>
      \A p \in 1..Len(ReturnedRows(t)) :
        \E j \in 1..Len(TheCall(t).categories[1]) :
          Contains(Lower(CategoryTextOf(ReturnedRows(t)[p])),
                   Lower(TheCall(t).categories[1][j]))

\* C7: a call given k returns at most k records.
C7_AtMostK ==
  \A t \in Threads :
    Called(t) /\ TheCall(t).k # None => Len(TheResult(t).index) <= TheCall(t).k[1]

(* ---------------------------------------------------------------------- *)
(* Claims on the retriever cache (Spec)                                    *)
(* ---------------------------------------------------------------------- *)
\* Thread t leaves the cache test of CreditCardVectorStore.__init__.
LookupStep(t) == thr[t].pc = "lookup" /\ thr'[t].pc # "lookup"

\* Thread t enters its new retriever in the cache.
InstallStep(t) == thr[t].pc = "install" /\ thr'[t].pc = "ready"

\* Thread t makes a search call.
SearchBy(t) == \E c \in ThreadCalls : SearchStep(t, c)

\* The key of the store thread t constructs has a cache entry and
\* force_reindex is not set.
Reuses(t) == ~thr[t].force /\ cache[thr[t].path] # 0

\* The retriever is held by no thread and is no cache entry.
Fresh(r) ==
  /\ r \notin 1..Len(heap)
  /\ \A p \in Paths : cache[p] # r
  /\ \A t \in Threads : thr[t].retriever # r

\* C8 as stated: constructing a store for a key that has a cache entry,
\* without force_reindex, builds no retriever and no index and yields the
\* cached retriever; no search call builds a lexical index; a construction
\* with force_reindex builds a fresh retriever and replaces the cache entry.
C8_NoIndexBuiltBySearch ==
  [][ \A t \in Threads :
        /\ LookupStep(t) /\ Reuses(t) =>
             /\ thr'[t].retriever = cache[thr[t].path]
             /\ heap' = heap /\ cache' = cache /\ built' = "none"
        /\ SearchBy(t) => built' = "none"
        /\ LookupStep(t) /\ thr[t].force => thr'[t].retriever \in 1..Len(heap') /\ Fresh(thr'[t].retriever)
        /\ InstallStep(t) /\ thr[t].force => cache'[thr[t].path] = thr[t].retriever
    ]_vars

\* C8, amended: constructing a store for a key that has a cache entry,
\* without force_reindex, builds no retriever and no index and yields the
\* cached retriever; a search call builds no retriever, leaves the cache and
\* the dataset-wide index alone, and builds one scoped index over its
\* candidate rows exactly when the dataset of the retriever is not empty; a
\* construction with force_reindex builds a fresh retriever and replaces
\* the cache entry with it once it is complete.
C8_CacheReuse ==
  [][ \A t \in Threads :
        /\ LookupStep(t) /\ Reuses(t) =>
             /\ thr'[t].pc = "ready"
             /\ thr'[t].retriever = cache[thr[t].path]
             /\ heap' = heap /\ cache' = cache /\ built' = "none"
        /\ \/ /\ heap' = heap /\ cache' = cache
              /\ thr[t].pc = "ready"
              /\ built' = IF IsEmpty(heap[thr[t].retriever].df) THEN "none" ELSE "scoped"
           \/ ~SearchBy(t)
        /\ LookupStep(t) /\ thr[t].force =>
             /\ thr'[t].retriever \in 1..Len(heap') /\ Fresh(thr'[t].retriever)
             /\ cache' = cache
        /\ InstallStep(t) /\ thr[t].force =>
             /\ heap[thr[t].retriever].stage = "done"
             /\ cache' = [cache EXCEPT ![thr[t].path] = thr[t].retriever]
    ]_vars

\* C8 witness: both threads hold the one cached retriever, the second built,
\* so a construction reused it; a search on it has just built a scoped index.
C8_Witness ==
  /\ \A t \in Threads : thr[t].pc = "ready" /\ thr[t].retriever = 2
  /\ cache["cards.csv"] = 2
  /\ Called(1) /\ Len(TheResult(1).index) >= 1
  /\ built = "scoped"

\* The retriever is completely built: LocalRetriever.__init__ has returned.
Complete(r) == r.stage = "done" /\ r.bm25 = ~IsEmpty(r.df)

Building(t) == thr[t].pc \in { "init_fields", "init_index", "install" }

\* C9: every retriever the cache or a constructed store holds is completely
\* built; a retriever under construction is held by its builder alone; and
\* the cache entry changes only when a builder enters its own complete
\* retriever, the later entry replacing the earlier.
C9_OnlyCompleteRetrievers ==
  /\ [](/\ \A p \in Paths : cache[p] # 0 => Complete(heap[cache[p]])
        /\ \A t \in Threads :
             /\ thr[t].pc = "ready" => Complete(heap[thr[t].retriever])
             /\ Building(t) =>
                  /\ \A p \in Paths : cache[p] # thr[t].retriever
                  /\ \A u \in Threads \ { t } : thr[u].retriever # thr[t].retriever
             /\ thr[t].pc = "install" =>
                  heap[thr[t].retriever] = new_retriever(thr[t].df))
  /\ [][ /\ \A t \in Threads :
              InstallStep(t) => cache' = [cache EXCEPT ![thr[t].path] = thr[t].retriever]
         /\ cache' # cache => \E t \in Threads : InstallStep(t)
       ]_vars

\* C9 witness: two builders have each built a retriever for the same key;
\* both hold their own, the cache holds the second, and a search on the
\* first has returned.
C9_Witness ==
  /\ \A t \in Threads : thr[t].pc = "ready" /\ thr[t].path = "cards.csv"
  /\ thr[1].retriever # thr[2].retriever
  /\ cache["cards.csv"] = thr[2].retriever
  /\ Called(1) /\ ~TheResult(1).raised

\* C10 as stated: a search on a store constructed while its dataset file was
\* missing or empty returns an empty result and does not raise.
C10_EmptyWhenFileMissing ==
  \A t \in Threads :
    Called(t) /\ IsEmpty(thr[t].df) => TheResult(t) = Returned(<< >>, {})

\* C10, amended: a search on a retriever built while the dataset file was
\* missing, or from a dataset with no row, returns an empty result and does
\* not raise, whatever the query, bank, max_fee, categories and k.
C10_EmptyWhenBuiltEmpty ==
  \A t \in Threads :
    Called(t) /\ IsEmpty(Self(t).df) =>
      /\ TheResult(t) = Returned(<< >>, {})
      /\ \A c \in Calls :
           /\ search(Self(t), c.query, c.bank, c.max_fee, c.categories, c.k)
                = Returned(<< >>, {})
           /\ \A schema \in Schemas :
                search(new_retriever(MakeFrame(schema, << >>)), c.query, c.bank,
                       c.max_fee, c.categories, c.k) = Returned(<< >>, {})

\* C10 witness: the file is missing, the retriever was built from it, and a
\* search on it has returned.
C10_Witness ==
  /\ files["cards.csv"] = None
  /\ Called(1) /\ IsEmpty(thr[1].df) /\ IsEmpty(Self(1).df)
  /\ TheResult(1).index = << >>

\* C11: a caller that repeats a search call on the retriever it holds, with
\* the same query, bank, max_fee, categories and k, gets the same records
\* in the same order, whatever steps were taken since its earlier call.
C11_SameCallSameResult ==
  [][ \A t \in Threads :
        /\ thr[t].pc = "ready" /\ thr'[t].pc = "ready"
        /\ thr[t].call # None /\ thr'[t].call = thr[t].call
        /\ thr'[t].retriever = thr[t].retriever
        => thr'[t].result = thr[t].result
    ]_vars

\* The normalized card name of the row with the given index label.
NameOf(t, i) == Lower(Strip(GetEither(Self(t).df.rows[i], "Card Name", "card_name")))

Similar(a, b) == partial_ratio_at_least(a, b, DedupThreshold)

\* The candidates of the call with their scores, best first.
Ranked(t) == thr[t].rows

\* C12: no two returned records have normalized card names of similarity
\* 92 or more; the best-scored candidate is returned first; and when k does
\* not cut the result short, every candidate that is not returned comes
\* after a returned one with a similar name and a score at least as high.
C12_NoNearDuplicates ==
  \A t \in Threads :
    Called(t) /\ ~IsEmpty(Self(t).df) /\ ~TheResult(t).raised =>
      LET out == TheResult(t).index
          ranked == Ranked(t)
      IN  /\ \A p, q \in 1..Len(out) :
               p # q => ~Similar(NameOf(t, out[p]), NameOf(t, out[q]))
          /\ RequestedK(t) >= 1 => out # << >> /\ out[1] = ranked[1][1]
          /\ RequestedK(t) >= Len(ranked) =>
               \A q \in 1..Len(ranked) :
                 ranked[q][1] \notin Range(out) =>
                   \E p \in 1..(q - 1) :
                     /\ ranked[p][1] \in Range(out)
                     /\ ranked[p][2] >= ranked[q][2]
                     /\ Similar(NameOf(t, ranked[p][1]), NameOf(t, ranked[q][1]))

\* C12 witness: two candidates have the same normalized name, and the one
\* with the lower score was left out of a result that k did not cut short.
C12_Witness ==
  /\ Called(1) /\ TheCall(1).k = None
  /\ Len(Self(1).df.rows) = 3
  /\ Len(TheResult(1).index) = 2
  /\ \E i, j \in 1..3 :
       /\ i # j /\ NameOf(1, i) = NameOf(1, j)
       /\ i \in Range(TheResult(1).index) /\ j \notin Range(TheResult(1).index)

\* The final score of the candidate with the given index label.
ScoreIn(ranked, i) == ranked[CHOOSE p \in 1..Len(ranked) : ranked[p][1] = i][2]

\* C13: the returned records are in non-increasing order of final score,
\* and returned records of equal score are in the order of the dataset.
C13_OrderedByScore ==
  \A t \in Threads :
    Called(t) /\ ~IsEmpty(Self(t).df) /\ ~TheResult(t).raised =>
      LET out == TheResult(t).index
          ranked == Ranked(t)
      IN  \A p, q \in 1..Len(out) :
            p < q =>
              /\ ScoreIn(ranked, out[p]) >= ScoreIn(ranked, out[q])
              /\ ScoreIn(ranked, out[p]) = ScoreIn(ranked, out[q]) => out[p] < out[q]

\* C13 witness: the last row of the dataset is returned first, with a higher
\* score, and the two records after it have equal scores.
C13_Witness ==
  /\ Called(1) /\ Len(TheResult(1).index) = 3
  /\ TheResult(1).index[1] = 3
  /\ LET ranked == Ranked(1)
     IN  /\ ScoreIn(ranked, 3) > ScoreIn(ranked, 1)
         /\ ScoreIn(ranked, 1) = ScoreIn(ranked, 2)

\* The canonical field a column of either naming scheme holds.
FieldOf(c) ==
  IF c \in CanonicalFields THEN c ELSE CHOOSE f \in CanonicalFields : TitleName(f) = c

\* The same dataset with its columns named under the given scheme.
InSchema(df, schema) ==
  LET cols == { ColumnName(schema, FieldOf(c)) : c \in df.columns }
      from(c) == CHOOSE d \in df.columns : FieldOf(d) = FieldOf(c)
  IN  [columns |-> cols,
       rows |-> List([i \in 1..Len(df.rows) |-> [c \in cols |-> df.rows[i][from(c)]]])]

\* C14: a search on a dataset with Title Case columns returns the records,
\* in the order and under the field names, that the same call returns on the
\* same dataset with canonical lowercase columns.
C14_SchemasAgree ==
  \A t \in Threads :
    Called(t) /\ "Card Name" \in Self(t).df.columns =>
      TheResult(t) = search([Self(t) EXCEPT !.df = InSchema(Self(t).df, "lower")],
                            TheCall(t).query, TheCall(t).bank, TheCall(t).max_fee,
                            TheCall(t).categories, TheCall(t).k)

\* C15: every returned record carries the ten canonical fields, and none
\* of its cells is null: a field that is null or absent in the dataset file
\* is the empty string in the record.
C15_AllCanonicalFields ==
  \A t \in Threads :
    Called(t) /\ TheResult(t).index # << >> =>
      /\ CanonicalFields \subseteq TheResult(t).columns
      /\ \A p \in 1..Len(ReturnedRows(t)) :
           \A c \in DOMAIN ReturnedRows(t)[p] : ReturnedRows(t)[p][c] # Null

(* ---------------------------------------------------------------------- *)
(* Claims on the tokenizer (SpecTokenize)                                  *)
(* ---------------------------------------------------------------------- *)
\* Two texts of the same length whose characters, place by place, are the
\* same letter in either case or are both separators.
Alike(x, y) ==
  /\ Len(x) = Len(y)
  /\ \A i \in 1..Len(x) :
       \/ x[i] \in Separators /\ y[i] \in Separators
       \/ x[i] \notin Separators /\ y[i] \notin Separators
            /\ \E l \in { "a", "b" } : { x[i], y[i] } \subseteq { l, IF l = "a" THEN "A" ELSE "B" }

\* C16: a query and a row text that differ only in letter case and in
\* using '/', '-' or a space between words give the same token sequence,
\* and no token is empty, holds a separator or an upper-case letter.
C16_TokenizeNormalizes ==
  \A t \in Threads :
    thr[t].result # None /\ Alike(thr[t].call[1].query, TheResult(t).text) =>
      /\ TheResult(t).queries = TheResult(t).tokens
      /\ \A p \in 1..Len(TheResult(t).tokens) :
           /\ TheResult(t).tokens[p] # << >>
           /\ \A i \in 1..Len(TheResult(t).tokens[p]) :
                TheResult(t).tokens[p][i] \in { "a", "b" }

\* C16 witness: the query "a-b" and the row text "A b" both give the tokens
\* "a", "b".
C16_Witness ==
  /\ thr[1].call = Some([query |-> << "a", "-", "b" >>])
  /\ thr[1].result # None
  /\ TheResult(1).text = << "A", " ", "b" >>
  /\ TheResult(1).tokens = << << "a" >>, << "b" >> >>

(* ---------------------------------------------------------------------- *)
(* Claims on the keys of the cache (SpecKeys)                              *)
(* ---------------------------------------------------------------------- *)
\* C17 as stated: a key that has an entry keeps one; the retriever under a
\* key is replaced only in a step of a construction with force_reindex for
\* that key; and a step that changes the entry of one key leaves the
\* entries of all other keys as they are.
C17_ReplacedOnlyWhenForced ==
  [][ \A p \in Paths :
        /\ cache[p] # 0 => cache'[p] # 0
        /\ cache[p] # 0 /\ cache'[p] # cache[p] =>
             \E t \in Threads : InstallStep(t) /\ thr[t].path = p /\ thr[t].force
        /\ cache'[p] # cache[p] => \A q \in Paths \ { p } : cache'[q] = cache[q]
    ]_vars

\* C17, amended: a key that has an entry keeps one; the entry of a key
\* changes only in the step in which a builder for that same key stores the
\* retriever it built, and a builder is a construction with force_reindex or
\* one that found no entry for the key when it tested the cache, so an entry
\* is replaced either by a forced rebuild or by the later of two builders
\* that raced on the key while it had no entry; and a step that changes the
\* entry of one key leaves the entries of all other keys as they are.
C17_EntriesPersist ==
  [][ /\ \A p \in Paths :
           /\ cache[p] # 0 => cache'[p] # 0
           /\ cache'[p] # cache[p] =>
                /\ \E t \in Threads :
                     InstallStep(t) /\ thr[t].path = p /\ cache'[p] = thr[t].retriever
                /\ \A q \in Paths \ { p } : cache'[q] = cache[q]
      /\ \A t \in Threads :
           LookupStep(t) /\ Building(t)' => thr[t].force \/ cache[thr[t].path] = 0
    ]_vars

\* C17 witness: both keys have an entry, the first key has kept its entry
\* while the second was built, and a forced rebuild of the second key is
\* about to begin.
C17_Witness ==
  /\ cache["cards.csv"] = 1 /\ cache["upload.csv"] = 2
  /\ thr[1].pc = "ready" /\ thr[1].path = "cards.csv" /\ thr[1].retriever = 1
  /\ thr[2].pc = "lookup" /\ thr[2].path = "upload.csv" /\ thr[2].force

(* ---------------------------------------------------------------------- *)
(* Claims on the filter stage and the scores (SpecSearch)                  *)
(* ---------------------------------------------------------------------- *)
\* The rows of the dataset whose bank contains the requested bank.
BankRows(t) ==
  { i \in 1..Len(Self(t).df.rows) :
      TheCall(t).bank # None /\ BankMatches(Self(t).df.rows[i], TheCall(t).bank[1]) }

\* The fee step, and the category step, keeps the row when applied to it alone.
FeeKeeps(t, i) == fee_filter(Self(t).df, << i >>, TheCall(t).max_fee) = << i >>

CategoryKeeps(t, i) == category_filter(Self(t).df, << i >>, TheCall(t).categories) = << i >>

\* C18: the filter stage keeps, in dataset order, the rows that pass the fee
\* step and the category step among the rows whose bank contains the
\* requested bank when a bank is requested and some row matches it, among
\* all rows otherwise.
C18_FilterOrder ==
  \A t \in Threads :
    Called(t) /\ ~IsEmpty(Self(t).df) =>
      LET n == Len(Self(t).df.rows)
          pool == IF TruthySeq(TheCall(t).bank) /\ BankRows(t) # {}
                  THEN BankRows(t) ELSE 1..n
      IN  Filtered(t) =
            SelectSeq([i \in 1..n |-> i],
                      LAMBDA i : i \in pool /\ FeeKeeps(t, i) /\ CategoryKeeps(t, i))

\* C18 witness: the one row of the requested bank fails the fee cap, rows of
\* other banks pass it, and the filter stage keeps no row.
C18_Witness ==
  /\ Called(1) /\ TheCall(1).bank = Some(s_HDFC) /\ TruthyInt(TheCall(1).max_fee)
  /\ BankRows(1) # {}
  /\ \E i \in 1..Len(Self(1).df.rows) : i \notin BankRows(1) /\ FeeKeeps(1, i)
  /\ Filtered(1) = << >>

\* The name, description, key benefits and tags of a row, lower-cased,
\* under either column naming scheme.
KeywordTextOf(row) ==
  Lower(JoinSpace(<< GetEither(row, "Card Name", "card_name"),
                     GetEither(row, "Description", "description"),
                     GetEither(row, "Key Benefits", "key_benefits"),
                     GetEither(row, "Tags", "tags") >>))

\* The synonyms that occur in the lower-cased query and in the text of the row.
SharedSynonyms(query, row) ==
  { j \in 1..Len(keyword_synonyms) :
      /\ Contains(Lower(query), keyword_synonyms[j])
      /\ Contains(KeywordTextOf(row), keyword_synonyms[j]) }

\* C19: the keyword bonus of every candidate row is 0.05 for each synonym
\* that occurs in both the query and the row's name, description, key
\* benefits and tags, and 0.20 at most.
C19_KeywordBonus ==
  \A t \in Threads :
    Called(t) =>
      \A i \in 1..Len(Self(t).df.rows) :
        LET row == Self(t).df.rows[i]
            bonus == keyword_bonus(TheCall(t).query, row)
        IN  /\ bonus \in { 0, 500, 1000, 1500, 2000 }
            /\ bonus = Min2(500 * Cardinality(SharedSynonyms(TheCall(t).query, row)), 2000)

\* The candidate rows of the call, and for each its lexical base score plus
\* its keyword bonus.
Candidates(t) ==
  candidate_base(Self(t), TheCall(t).bank, TheCall(t).max_fee, TheCall(t).categories)

PlainScores(t) ==
  LET base == Candidates(t)
      sims == bm25_scores(base_tokens(Self(t), base), tokenize(TheCall(t).query))
  IN  [p \in 1..Len(base) |->
         sims[p] + keyword_bonus(TheCall(t).query, Self(t).df.rows[base[p]])]

\* A bank was requested and the bank field of the row contains it.
HasBank(t, i) ==
  /\ TheCall(t).bank # None /\ TheCall(t).bank[1] # << >>
  /\ BankMatches(Self(t).df.rows[i], TheCall(t).bank[1])

\* C20: the final score of every candidate is its lexical base score plus
\* its keyword bonus, plus 0.25 exactly when a bank was requested and the
\* candidate's bank contains it; and of two returned records with equal
\* base score and keyword bonus the one of the requested bank comes first.
C20_ScoreIsSum ==
  \A t \in Threads :
    Called(t) /\ ~IsEmpty(Self(t).df) /\ ~TheResult(t).raised =>
      LET base == Candidates(t)
          plain == List(PlainScores(t))
          ranked == Ranked(t)
          at(i) == CHOOSE p \in 1..Len(base) : base[p] = i
          out == TheResult(t).index
      IN  /\ \A p \in 1..Len(base) :
               ScoreIn(ranked, base[p]) =
                 plain[p] + (IF HasBank(t, base[p]) THEN 2500 ELSE 0)
          /\ \A p, q \in 1..Len(out) :
               /\ plain[at(out[p])] = plain[at(out[q])]
               /\ HasBank(t, out[p]) /\ ~HasBank(t, out[q])
               => p < q

\* C20 witness: two records are returned, equal in base score and keyword
\* bonus; the one of the requested bank is the later row of the dataset and
\* comes first.
C20_Witness ==
  /\ Called(1) /\ Len(TheResult(1).index) = 2
  /\ TheResult(1).index[1] > TheResult(1).index[2]
  /\ HasBank(1, TheResult(1).index[1]) /\ ~HasBank(1, TheResult(1).index[2])
  /\ LET plain == List(PlainScores(1))
         base == Candidates(1)
     IN  \E p, q \in 1..Len(base) :
           /\ base[p] = TheResult(1).index[1] /\ base[q] = TheResult(1).index[2]
           /\ plain[p] = plain[q]

(* ---------------------------------------------------------------------- *)
(* Claims on stale retrievers and shared defaults (Spec)                   *)
(* ---------------------------------------------------------------------- *)
\* The cache entry of the path is a retriever built from no rows.
EmptyCached(p) == cache[p] # 0 /\ IsEmpty(heap[cache[p]].df)

\* The first store of a path, built while the file was missing, caches an
\* empty retriever; a store constructed without force_reindex takes the
\* cached retriever whatever the file holds by then; a search on an empty
\* retriever returns nothing.
StaleEmptyKept ==
  /\ [](\A t \in Threads :
          Called(t) /\ IsEmpty(Self(t).df) => TheResult(t) = Returned(<< >>, {}))
  /\ [][ \A t \in Threads :
           /\ InstallStep(t) /\ cache[thr[t].path] = 0 /\ IsEmpty(thr[t].df) =>
                EmptyCached(thr[t].path)'
           /\ LookupStep(t) /\ ~thr[t].force /\ EmptyCached(thr[t].path) =>
                /\ thr'[t].pc = "ready"
                /\ thr'[t].retriever = cache[thr[t].path]
                /\ IsEmpty(heap'[thr'[t].retriever].df)
                /\ cache' = cache
       ]_vars

ConfiguresK(t, k) == thr[t].pc = "ready" /\ AsRetriever(t, k)

\* The stores of t and u hold the same retriever object.
SameRetriever(t, u) ==
  thr[t].pc = "ready" /\ thr[u].pc = "ready" /\ thr[t].retriever = thr[u].retriever

\* A search that omits k returns what the same search with k set to the k
\* of the retriever returns, and no more records than that k.
OmittedKIsRetrieverK ==
  [][ \A t \in Threads :
        \/ /\ thr[t].pc = "ready"
           /\ thr'[t].call # None /\ thr'[t].result # None
           /\ thr'[t].call[1].k = None =>
                LET self == heap[thr[t].retriever]
                    c == thr'[t].call[1]
                IN  /\ Len(thr'[t].result[1].index) <= self.k
                    /\ thr'[t].result[1] =
                         search_result(self, thr'[t].rows, c.bank, c.max_fee,
                                       c.categories, Some(self.k))
        \/ ~SearchBy(t)
    ]_vars

\* C22 as stated: as_retriever(k) on a store sets the default result size of
\* every store built for the same dataset path, and a search that omits k
\* uses the k of the retriever.
C22_SharedByPath ==
  /\ OmittedKIsRetrieverK
  /\ [][ \A t \in Threads, k \in RetrieverKs :
           ConfiguresK(t, k) =>
             \A u \in Threads :
               thr[u].pc = "ready" /\ thr[u].path = thr[t].path =>
                 heap'[thr'[u].retriever].k = k
       ]_vars

\* C22, amended: as_retriever(k) on a store sets the k of the retriever the
\* store holds, and with it the default result size of every store that
\* holds the same retriever object, and of no other; the k of a complete
\* retriever changes by no other step; and a search that omits k uses the k
\* of the retriever.
C22_SharedDefaultK ==
  /\ OmittedKIsRetrieverK
  /\ [][ /\ \A t \in Threads, k \in RetrieverKs :
             ConfiguresK(t, k) =>
               \A u \in Threads :
                 /\ SameRetriever(t, u) => heap'[thr'[u].retriever].k = k
                 /\ thr[u].pc = "ready" /\ ~SameRetriever(t, u) =>
                      heap'[thr'[u].retriever].k = heap[thr[u].retriever].k
         /\ \A u \in Threads :
              /\ thr[u].pc = "ready" /\ thr'[u].pc = "ready"
              /\ thr'[u].retriever = thr[u].retriever
              /\ heap'[thr[u].retriever].k # heap[thr[u].retriever].k
              => \E t \in Threads :
                   SameRetriever(t, u) /\ ConfiguresK(t, heap'[thr[u].retriever].k)
       ]_vars

\* C22 witness: both stores hold the one cached retriever, whose k is 1 by an
\* as_retriever call; the same search without k returned two records to
\* thread 1 before that call and one record to thread 2 after it.
C22_Witness ==
  /\ SameRetriever(1, 2) /\ Self(1).k = 1
  /\ Called(1) /\ Called(2) /\ TheCall(1) = TheCall(2) /\ TheCall(1).k = None
  /\ Len(TheResult(1).index) = 2 /\ Len(TheResult(2).index) = 1

(* ---------------------------------------------------------------------- *)
(* Claims on falsy arguments (SpecSearch)                                  *)
(* ---------------------------------------------------------------------- *)
\* The argument with 0 read as not given.
ZeroAsAbsent(o) == IF o = Some(0) THEN None ELSE o

\* The argument with "" or [] read as not given.
BlankAsAbsent(o) == IF o = Some(<< >>) THEN None ELSE o

\* The call has an argument that is given and falsy.
HasFalsy(c) ==
  c.max_fee = Some(0) \/ c.bank = Some(<< >>) \/ c.categories = Some(<< >>) \/ c.k = Some(0)

\* C23: a search with max_fee = 0, bank = "", categories = [] or k = 0 scores
\* the candidates and returns the records of the same search with those
\* arguments omitted: no fee filter, no bank filter and bonus, no category
\* filter, and the retriever's default k; with k = 0 on a dataset with rows
\* at least one record is returned.
C23_FalsyIsAbsent ==
  \A t \in Threads :
    Called(t) /\ HasFalsy(TheCall(t)) =>
      LET c == TheCall(t)
          rows == search_rows(Self(t), c.query, BlankAsAbsent(c.bank),
                              ZeroAsAbsent(c.max_fee), BlankAsAbsent(c.categories))
      IN  /\ Ranked(t) = rows
          /\ TheResult(t) = search_result(Self(t), rows, BlankAsAbsent(c.bank),
                                          ZeroAsAbsent(c.max_fee),
                                          BlankAsAbsent(c.categories),
                                          ZeroAsAbsent(c.k))
          /\ c.k = Some(0) /\ ~IsEmpty(Self(t).df) /\ ~TheResult(t).raised =>
               Len(TheResult(t).index) >= 1
          /\ c.max_fee = Some(0) /\ c.bank \in { None, Some(<< >>) }
               /\ c.categories \in { None, Some(<< >>) } =>
               Len(rows) = Len(Self(t).df.rows)

\* C23 witness: a call with max_fee = 0, bank = "", categories = [] and k = 0
\* has returned two records, one of them with a fee above 0.
C23_Witness ==
  /\ Called(1)
  /\ TheCall(1).max_fee = Some(0) /\ TheCall(1).bank = Some(<< >>)
  /\ TheCall(1).categories = Some(<< >>) /\ TheCall(1).k = Some(0)
  /\ Len(TheResult(1).index) = 2
  /\ \E p \in 1..2 : fee_val(FeeOf(ReturnedRows(1)[p])) \in 1..(FeeUnbounded - 1)

====
